---- MODULE Spec2Model ----
(***************************************************************************)
(* A model of streamlit_app.py: the SEBI feed pipeline                     *)
(*   fetch_sebi_feed -> parse_sebi_feed -> filter_items -> render (main),  *)
(* with parse_pub_date, is_keyword_present and extract_pdf_from_iframe.    *)
(*                                                                         *)
(* Representation.  A Python str is a sequence.  Titles, descriptions and  *)
(* keywords are sequences of one-character strings.  A pubDate string is a *)
(* sequence of lexemes (runs of letters, runs of digits, single            *)
(* punctuation characters, runs of whitespace), which is the granularity   *)
(* at which strptime's directives consume it.  A URL is a sequence of URL  *)
(* parts.  The empty str is << >> in every case.                           *)
(***************************************************************************)
EXTENDS Integers, Sequences, FiniteSets, TLC

VARIABLES
    pc,           \* position of main() / of the function under test
    now,          \* datetime.utcnow() as read by filter_items (l.68)
    tzlocal,      \* UTC offset of the system-local zone, in seconds
    xml_content,  \* main: what fetch_sebi_feed returned
    items,        \* main: what parse_sebi_feed returned
    filtered,     \* main: what filter_items returned
    idx,          \* main: position of the running loop over `filtered`
    net,          \* every requests.get issued so far, in order
    ui,           \* every st.* output produced so far, in order
    rows,         \* main: the rows of the table built so far (l.139-146)
    arg,          \* function under test: its argument
    result        \* function under test: what it returned

vars == <<pc, now, tzlocal, xml_content, items, filtered, idx, net, ui, rows, arg, result>>

(***************************************************************************)
(* Bounds of the model.                                                    *)
(***************************************************************************)
MaxPad == 1       \* characters put before / after a word in a test text
MaxItems == 2     \* records in the argument of filter_items
MaxFeedItems == 3 \* children of the channel element of a feed document
MaxJunk == 1      \* lexemes behind a '+' that starts no zone offset

(***************************************************************************)
(* Generic helpers.                                                        *)
(***************************************************************************)
Unset == [kind |-> "unset"]
None == [kind |-> "None"]

SeqsUpTo(S, n) == UNION {[1..k -> S] : k \in 0..n}

Range(s) == {s[i] : i \in 1..Len(s)}

\* an assignment `name = value`: the value is computed once, and the code
\* that follows reads it
Let(value, Rest(_)) == CHOOSE out \in {Rest(v) : v \in {value}} : TRUE

(***************************************************************************)
(* Characters: str.lower() and the regex class \w.                         *)
(***************************************************************************)
LowerCase == <<"a","b","c","d","e","f","g","h","i","j","k","l","m",
               "n","o","p","q","r","s","t","u","v","w","x","y","z">>
UpperCase == <<"A","B","C","D","E","F","G","H","I","J","K","L","M",
               "N","O","P","Q","R","S","T","U","V","W","X","Y","Z">>
Digits == {"0","1","2","3","4","5","6","7","8","9"}

LowerChar(c) ==
    IF \E i \in 1..Len(UpperCase) : UpperCase[i] = c
    THEN LowerCase[CHOOSE i \in 1..Len(UpperCase) : UpperCase[i] = c]
    ELSE c

UpperChar(c) ==
    IF \E i \in 1..Len(LowerCase) : LowerCase[i] = c
    THEN UpperCase[CHOOSE i \in 1..Len(LowerCase) : LowerCase[i] = c]
    ELSE c

\* str.lower()
lower(s) == [i \in 1..Len(s) |-> LowerChar(s[i])]

\* str.upper(), used to build test texts only
upper(s) == [i \in 1..Len(s) |-> UpperChar(s[i])]

\* the regex class \w on str patterns: alphanumerics and the underscore
IsWordChar(c) == c \in Range(LowerCase) \cup Range(UpperCase) \cup Digits \cup {"_"}

(***************************************************************************)
(* KEYWORDS (l.11-18).                                                     *)
(***************************************************************************)
KEYWORDS == <<
    <<"c","i","r","c","u","l","a","r">>,
    <<"m","a","s","t","e","r"," ","c","i","r","c","u","l","a","r">>,
    <<"r","e","g","u","l","a","t","i","o","n">>,
    <<"r","e","g","u","l","a","t","i","o","n","s">>,
    <<"a","m","e","n","d","m","e","n","t">>,
    <<"a","m","e","n","d","m","e","n","t","s">> >>

(***************************************************************************)
(* The regular expressions of l.43: a pattern is a sequence of atoms, \b   *)
(* or a literal character.                                                 *)
(***************************************************************************)
WordBoundary == [t |-> "b"]
Literal(c) == [t |-> "lit", c |-> c]

\* re.escape(word): every character of the word matches itself only
re_escape(word) == [i \in 1..Len(word) |-> Literal(word[i])]

\* r"\b{}\b".format(re.escape(word))
KeywordPattern(word) == <<WordBoundary>> \o re_escape(word) \o <<WordBoundary>>

IsWordAt(s, i) == i \in 1..Len(s) /\ IsWordChar(s[i])

\* a pattern without its \b
AtBoundaryMissing(s, pos) == TRUE

\* \b holds in front of s[pos] when exactly one of its two neighbours is \w
AtBoundary(s, pos) == IsWordAt(s, pos - 1) # IsWordAt(s, pos)

RECURSIVE MatchAt(_, _, _, _)
\* atoms k.. of pat match s from the character at pos on
MatchAt(pat, k, s, pos) ==
    IF k > Len(pat) THEN TRUE
    ELSE IF pat[k].t = "b"
         THEN AtBoundary(s, pos) /\ MatchAt(pat, k + 1, s, pos)
         ELSE /\ pos <= Len(s)
              /\ s[pos] = pat[k].c
              /\ MatchAt(pat, k + 1, s, pos + 1)

\* re.search(pat, s) is not None
re_search(pat, s) == \E pos \in 1..(Len(s) + 1) : MatchAt(pat, 1, s, pos)

\* is_keyword_present (l.41-43)
is_keyword_present(text) ==
    \E text_lower \in {lower(text)} :
        \E w \in 1..Len(KEYWORDS) : re_search(KeywordPattern(KEYWORDS[w]), text_lower)

(***************************************************************************)
(* pubDate strings.  Lexemes: a run of letters, a run of digits (its value *)
(* n and its number of digits w), one punctuation character, or a run of   *)
(* whitespace.                                                             *)
(***************************************************************************)
Alpha(s) == [k |-> "alpha", s |-> s, n |-> 0, w |-> 0]
Num(n, w) == [k |-> "num", s |-> "", n |-> n, w |-> w]
Punct(c) == [k |-> c, s |-> "", n |-> 0, w |-> 0]
Sp == [k |-> "sp", s |-> "", n |-> 0, w |-> 0]

DayNames == <<"Mon", "Tue", "Wed", "Thu", "Fri", "Sat", "Sun">>
MonthNames == <<"Jan", "Feb", "Mar", "Apr", "May", "Jun",
                "Jul", "Aug", "Sep", "Oct", "Nov", "Dec">>

MonthNumber(s) == CHOOSE m \in 1..Len(MonthNames) : MonthNames[m] = s

(***************************************************************************)
(* The proleptic Gregorian calendar of datetime: a date is its ordinal     *)
(* (1 Jan of year 1 is day 1), a time of day its second and microsecond.   *)
(***************************************************************************)
SecondsPerDay == 24 * 60 * 60

is_leap(y) == y % 4 = 0 /\ (y % 100 # 0 \/ y % 400 = 0)

days_before_year(y) ==
    (y - 1) * 365 + ((y - 1) \div 4) - ((y - 1) \div 100) + ((y - 1) \div 400)

days_in_month(y, m) ==
    IF m = 2 THEN (IF is_leap(y) THEN 29 ELSE 28)
    ELSE IF m \in {4, 6, 9, 11} THEN 30 ELSE 31

RECURSIVE days_before_month(_, _)
days_before_month(y, m) ==
    IF m = 1 THEN 0 ELSE days_before_month(y, m - 1) + days_in_month(y, m - 1)

ymd2ord(y, m, d) == days_before_year(y) + days_before_month(y, m) + d

\* datetime.min and datetime.max as ordinals
MinOrdinal == ymd2ord(1, 1, 1)
MaxOrdinal == ymd2ord(9999, 12, 31)

\* a naive datetime, and an aware one with a fixed UTC offset in seconds
Naive(ord, sec, us) ==
    [kind |-> "datetime", ord |-> ord, sec |-> sec, us |-> us, aware |-> FALSE, off |-> 0]
Aware(ord, sec, us, off) ==
    [kind |-> "datetime", ord |-> ord, sec |-> sec, us |-> us, aware |-> TRUE, off |-> off]

Raise(exc) == [kind |-> "raise", exc |-> exc]

(***************************************************************************)
(* datetime.strptime (l.56, l.61).  A format is a sequence of directives   *)
(* and literal characters; " " stands for a run of whitespace.             *)
(***************************************************************************)
StrptimeDefaults ==
    [Y |-> 1900, m |-> 1, d |-> 1, H |-> 0, M |-> 0, S |-> 0, aware |-> FALSE, off |-> 0]

\* does the lexeme lx satisfy the directive dir
Accepts(dir, lx) ==
    CASE dir = "%a" -> lx.k = "alpha" /\ lx.s \in Range(DayNames)
      [] dir = "%b" -> lx.k = "alpha" /\ lx.s \in Range(MonthNames)
      [] dir = "%d" -> lx.k = "num" /\ lx.w \in {1, 2} /\ lx.n \in 1..31
      [] dir = "%m" -> lx.k = "num" /\ lx.w \in {1, 2} /\ lx.n \in 1..12
      [] dir = "%Y" -> lx.k = "num" /\ lx.w = 4
      [] dir = "%H" -> lx.k = "num" /\ lx.w \in {1, 2} /\ lx.n \in 0..23
      [] dir = "%M" -> lx.k = "num" /\ lx.w \in {1, 2} /\ lx.n \in 0..59
      [] dir = "%S" -> lx.k = "num" /\ lx.w \in {1, 2} /\ lx.n \in 0..61
      [] dir = " "  -> lx.k = "sp"
      [] OTHER      -> lx.k = dir

\* the fields found so far, with what lx gives for dir
Store(dir, lx, f) ==
    CASE dir = "%b" -> [f EXCEPT !.m = MonthNumber(lx.s)]
      [] dir = "%d" -> [f EXCEPT !.d = lx.n]
      [] dir = "%m" -> [f EXCEPT !.m = lx.n]
      [] dir = "%Y" -> [f EXCEPT !.Y = lx.n]
      [] dir = "%H" -> [f EXCEPT !.H = lx.n]
      [] dir = "%M" -> [f EXCEPT !.M = lx.n]
      [] dir = "%S" -> [f EXCEPT !.S = lx.n]
      [] OTHER      -> f

\* %z: "Z", or a sign and hhmm (the offsets written with a colon or with
\* seconds are not among the strings considered)
IsZoneZ(s, j) == j <= Len(s) /\ s[j].k = "alpha" /\ s[j].s = "Z"

IsZoneOffset(s, j) ==
    /\ j + 1 <= Len(s)
    /\ s[j].k \in {"+", "-"}
    /\ s[j + 1].k = "num" /\ s[j + 1].w = 4 /\ s[j + 1].n % 100 <= 59

ZoneSeconds(sign, hhmm) ==
    (IF sign.k = "-" THEN -1 ELSE 1) * (((hhmm.n \div 100) * 60 + (hhmm.n % 100)) * 60)

RECURSIVE MatchFormat(_, _, _, _, _)
\* directives i.. of fmt against lexemes j.. of s: the fields, or a ValueError
MatchFormat(fmt, i, s, j, f) ==
    IF i > Len(fmt)
    THEN (IF j > Len(s) THEN f ELSE Raise("ValueError"))   \* unconverted data remains
    ELSE IF fmt[i] = "%z"
    THEN IF IsZoneZ(s, j)
         THEN MatchFormat(fmt, i + 1, s, j + 1, [f EXCEPT !.aware = TRUE, !.off = 0])
         ELSE IF IsZoneOffset(s, j)
         THEN MatchFormat(fmt, i + 1, s, j + 2,
                          [f EXCEPT !.aware = TRUE, !.off = ZoneSeconds(s[j], s[j + 1])])
         ELSE Raise("ValueError")
    ELSE IF j <= Len(s) /\ Accepts(fmt[i], s[j])
         THEN MatchFormat(fmt, i + 1, s, j + 1, Store(fmt[i], s[j], f))
         ELSE Raise("ValueError")

\* datetime.strptime(date_string, format)
strptime(date_string, format) ==
    Let(MatchFormat(format, 1, date_string, 1, StrptimeDefaults), LAMBDA f :
        IF "kind" \in DOMAIN f THEN f
        ELSE IF f.Y < 1 \/ f.d > days_in_month(f.Y, f.m) \/ f.S > 59
        THEN Raise("ValueError")
        ELSE [kind |-> "datetime",
              ord |-> ymd2ord(f.Y, f.m, f.d),
              sec |-> (f.H * 60 + f.M) * 60 + f.S,
              us |-> 0,
              aware |-> f.aware,
              off |-> f.off])

(***************************************************************************)
(* parse_pub_date (l.45-64).                                               *)
(***************************************************************************)
FmtRfc822 == <<"%a", ",", " ", "%d", " ", "%b", " ", "%Y", " ",
               "%H", ":", "%M", ":", "%S", " ", "%z">>
FmtDayMonthYearZone == <<"%d", " ", "%b", ",", " ", "%Y", " ", "%z">>
FmtDayMonthYear == <<"%d", " ", "%b", ",", " ", "%Y">>
FmtIso == <<"%Y", "-", "%m", "-", "%d">>

\* fmts (l.47-53); the first format is listed twice
fmts == <<FmtRfc822, FmtRfc822, FmtDayMonthYearZone, FmtDayMonthYear, FmtIso>>

\* s.split("+")[0]
BeforePlus(s) ==
    IF \E j \in 1..Len(s) : s[j].k = "+"
    THEN SubSeq(s, 1, (CHOOSE j \in 1..Len(s) :
                          s[j].k = "+" /\ \A h \in 1..(j - 1) : s[h].k # "+") - 1)
    ELSE s

\* s.strip()
strip(s) ==
    IF \A j \in 1..Len(s) : s[j].k = "sp" THEN << >>
    ELSE LET a == CHOOSE j \in 1..Len(s) : s[j].k # "sp" /\ \A h \in 1..(j - 1) : s[h].k = "sp"
             b == CHOOSE j \in 1..Len(s) : s[j].k # "sp" /\ \A h \in (j + 1)..Len(s) : s[h].k = "sp"
         IN  SubSeq(s, a, b)

\* l.59-64: what follows the loop over fmts
Fallback(pub_date) ==
    Let(strptime(strip(BeforePlus(pub_date)), FmtDayMonthYear), LAMBDA r :
        IF r.kind = "datetime" THEN r ELSE None)

RECURSIVE TryFormats(_, _)
\* l.54-58: the loop over fmts, from the i-th on
TryFormats(pub_date, i) ==
    IF i > Len(fmts) THEN Fallback(pub_date)
    ELSE Let(strptime(pub_date, fmts[i]), LAMBDA r :
            IF r.kind = "datetime" THEN r ELSE TryFormats(pub_date, i + 1))

parse_pub_date(pub_date) == TryFormats(pub_date, 1)

(***************************************************************************)
(* datetime arithmetic used by filter_items (l.68-78).                     *)
(***************************************************************************)
\* the naive datetime `seconds` after (ord, sec, us), or an OverflowError
Shift(ord, sec, us, seconds) ==
    LET total == sec + seconds
        o == ord + (total \div SecondsPerDay)
    IN  IF o < MinOrdinal \/ o > MaxOrdinal
        THEN Raise("OverflowError")
        ELSE Naive(o, total % SecondsPerDay, us)

\* now - timedelta(weeks=weeks) (l.69)
MinusWeeks(dt, weeks) == Shift(dt.ord, dt.sec, dt.us, -(weeks * 7 * SecondsPerDay))

\* dt.astimezone(tz=None).replace(tzinfo=None) (l.76): the aware dt as UTC,
\* then as the wall clock of the system-local zone
ToNaiveLocal(dt, tzl) ==
    Let(Shift(dt.ord, dt.sec, dt.us, -dt.off), LAMBDA utc :
        IF utc.kind = "raise" THEN utc
        ELSE Shift(utc.ord, utc.sec, utc.us, tzl))

\* l.75-76
Normalize(dt, tzl) == IF dt.aware THEN ToNaiveLocal(dt, tzl) ELSE dt

\* a < b on datetimes; naive against aware is a TypeError
DatetimeLt(a, b) ==
    IF a.aware # b.aware THEN Raise("TypeError")
    ELSE [kind |-> "bool",
          v |-> \/ a.ord < b.ord
                \/ a.ord = b.ord /\ a.sec < b.sec
                \/ a.ord = b.ord /\ a.sec = b.sec /\ a.us < b.us]

(***************************************************************************)
(* filter_items (l.66-85).                                                 *)
(***************************************************************************)
\* l.79
ItemHasKeyword(item) ==
    is_keyword_present(item.title) \/ is_keyword_present(item.description)

\* l.80-81: item.copy() with pub_date_obj
WithDate(item, dt) ==
    [title |-> item.title, link |-> item.link, pub_date |-> item.pub_date,
     description |-> item.description, pub_date_obj |-> dt]

\* l.77-82 for one item whose date is dt: the exception raised, or
\* `filtered` with the item appended or not
Select(item, dt, acc, start_date) ==
    IF dt.kind = "raise" THEN dt
    ELSE Let(DatetimeLt(dt, start_date), LAMBDA older :
            IF older.kind = "raise" THEN older
            ELSE IF older.v THEN [kind |-> "list", v |-> acc]
            ELSE IF ItemHasKeyword(item)
            THEN [kind |-> "list", v |-> Append(acc, WithDate(item, dt))]
            ELSE [kind |-> "list", v |-> acc])

RECURSIVE FilterLoop(_, _, _, _, _)
\* l.70-82 from the i-th item on, `acc` being `filtered` so far
FilterLoop(its, i, acc, start_date, tzl) ==
    IF i > Len(its) THEN [kind |-> "list", v |-> acc]
    ELSE Let(parse_pub_date(its[i].pub_date), LAMBDA parsed :
            IF parsed.kind = "None"
            THEN FilterLoop(its, i + 1, acc, start_date, tzl)
            ELSE Let(Select(its[i], Normalize(parsed, tzl), acc, start_date), LAMBDA r :
                    IF r.kind = "raise" THEN r
                    ELSE FilterLoop(its, i + 1, r.v, start_date, tzl)))

\* key(a) > key(b) for the sort key of l.84
KeyGreater(a, b) == DatetimeLt(b.pub_date_obj, a.pub_date_obj).v

\* x put into the newest-first sequence s, behind every element whose key is
\* not smaller (list.sort is stable, under reverse=True as well)
InsertSorted(s, x) ==
    LET ahead == {j \in 1..Len(s) : ~KeyGreater(x, s[j])}
        n == IF ahead = {} THEN 0 ELSE CHOOSE j \in ahead : \A h \in ahead : h <= j
    IN  SubSeq(s, 1, n) \o <<x>> \o SubSeq(s, n + 1, Len(s))

RECURSIVE SortFrom(_, _, _)
SortFrom(s, i, acc) ==
    IF i > Len(s) THEN acc
    ELSE Let(InsertSorted(acc, s[i]), LAMBDA longer : SortFrom(s, i + 1, longer))

\* l.84 without the sort
Unsorted(s) == s

\* filtered.sort(key=lambda x: x["pub_date_obj"], reverse=True) (l.84)
SortNewestFirst(s) == SortFrom(s, 1, << >>)

filter_items(its, weeks, utcnow, tzl) ==
    Let(MinusWeeks(utcnow, weeks), LAMBDA start_date :
        Let(FilterLoop(its, 1, << >>, start_date, tzl), LAMBDA r :
            IF r.kind = "raise" THEN r
            ELSE [kind |-> "list", v |-> SortNewestFirst(r.v)]))

(***************************************************************************)
(* XML documents and parse_sebi_feed (l.25-39).  An element is its tag,    *)
(* its text and the sequence of its children.                              *)
(***************************************************************************)
Element(tag, text, children) == [tag |-> tag, text |-> text, children |-> children]

Malformed == [kind |-> "bytes", wellformed |-> FALSE, root |-> Element("", << >>, << >>)]
Document(root) == [kind |-> "bytes", wellformed |-> TRUE, root |-> root]

\* ET.fromstring (l.26)
fromstring(content) ==
    IF content.wellformed THEN content.root ELSE Raise("ParseError")

RECURSIVE ChildrenAnyTag(_, _, _)
\* the children of e from the i-th on, whatever their tag
ChildrenAnyTag(e, tag, i) ==
    IF i > Len(e.children) THEN << >>
    ELSE <<e.children[i]>> \o ChildrenAnyTag(e, tag, i + 1)

RECURSIVE ChildrenTagged(_, _, _)
\* the children of e from the i-th on that carry the tag, in document order
ChildrenTagged(e, tag, i) ==
    IF i > Len(e.children) THEN << >>
    ELSE (IF e.children[i].tag = tag THEN <<e.children[i]>> ELSE << >>)
         \o ChildrenTagged(e, tag, i + 1)

RECURSIVE FindallIn(_, _, _)
\* the elements tagged `tag` under the parents from the i-th on
FindallIn(parents, tag, i) ==
    IF i > Len(parents) THEN << >>
    ELSE ChildrenTagged(parents[i], tag, 1) \o FindallIn(parents, tag, i + 1)

\* root.findall("./channel/item") (l.28)
findall_channel_item(root) == FindallIn(ChildrenTagged(root, "channel", 1), "item", 1)

\* item.findtext(tag, default="") (l.29-32): the text of the first child so
\* tagged, the default when there is none
findtext(e, tag, default) ==
    Let(ChildrenTagged(e, tag, 1), LAMBDA found :
        IF found = << >> THEN default ELSE found[1].text)

RECURSIVE ParseLoop(_, _)
\* l.28-38 from the i-th item on
ParseLoop(found, i) ==
    IF i > Len(found) THEN << >>
    ELSE <<[title |-> findtext(found[i], "title", << >>),
            link |-> findtext(found[i], "link", << >>),
            pub_date |-> findtext(found[i], "pubDate", << >>),
            description |-> findtext(found[i], "description", << >>)]>>
         \o ParseLoop(found, i + 1)

parse_sebi_feed(content) ==
    Let(fromstring(content), LAMBDA root :
        IF "kind" \in DOMAIN root THEN root
        ELSE Let(findall_channel_item(root), LAMBDA found :
                [kind |-> "list", v |-> ParseLoop(found, 1)]))

(***************************************************************************)
(* URLs and extract_pdf_from_iframe (l.87-103).  A URL is a sequence of    *)
(* parts: scheme, host, path segments; the last segment carries its        *)
(* extension as characters.                                                *)
(***************************************************************************)
Scheme == [k |-> "scheme", s |-> <<"h","t","t","p","s">>]
Host(h) == [k |-> "host", s |-> h]
Segment(name) == [k |-> "segment", s |-> name]

\* urljoin(base, url) (l.99) for absolute and for root-relative references
urljoin(base, url) ==
    IF url = << >> THEN base
    ELSE IF url[1].k = "scheme" THEN url
    ELSE SelectSeq(base, LAMBDA part : part.k \in {"scheme", "host"}) \o url

\* s.endswith(suffix) on characters
endswith(s, suffix) ==
    /\ Len(s) >= Len(suffix)
    /\ SubSeq(s, Len(s) - Len(suffix) + 1, Len(s)) = suffix

\* the characters a URL ends with: those of its last part
LastChars(url) == IF url = << >> THEN << >> ELSE url[Len(url)].s

DotPdf == <<".","p","d","f">>

\* pdf_url.lower().endswith(".pdf") (l.129)
IsPdfUrl(url) == endswith(lower(LastChars(url)), DotPdf)

\* what requests.get(page_url, timeout=10) may meet (l.93)
ConnectionError == [kind |-> "error", exc |-> "ConnectionError", status |-> 0, parses |-> FALSE, iframes |-> << >>]
Timeout == [kind |-> "error", exc |-> "Timeout", status |-> 0, parses |-> FALSE, iframes |-> << >>]
HttpStatus(status) == [kind |-> "http", exc |-> "", status |-> status, parses |-> FALSE, iframes |-> << >>]
BadHtml == [kind |-> "http", exc |-> "", status |-> 200, parses |-> FALSE, iframes |-> << >>]
Html(iframes) == [kind |-> "http", exc |-> "", status |-> 200, parses |-> TRUE, iframes |-> iframes]

\* an <iframe>, with or without a src attribute
Iframe(src) == [has_src |-> TRUE, src |-> src]
IframeNoSrc == [has_src |-> FALSE, src |-> << >>]

\* l.93-100 without the try
ExtractBody(page_url, response) ==
    IF page_url = << >> \/ page_url[1].k # "scheme" THEN Raise("MissingSchema")
    ELSE IF response.kind = "error" THEN Raise(response.exc)
    ELSE IF response.status >= 400 THEN Raise("HTTPError")     \* raise_for_status (l.94)
    ELSE IF ~response.parses THEN Raise("ParserError")          \* BeautifulSoup (l.95)
    ELSE Let(SelectSeq(response.iframes, LAMBDA f : f.has_src), LAMBDA with_src :   \* l.96
            IF with_src = << >> THEN None
            ELSE [kind |-> "url", v |-> urljoin(page_url, with_src[1].src)])

\* l.92-103 with no except clause
ExtractUncaught(page_url, response) == ExtractBody(page_url, response)

\* extract_pdf_from_iframe: l.101-103 turn every exception into None
extract_pdf_from_iframe(page_url, response) ==
    Let(ExtractBody(page_url, response), LAMBDA r :
        IF r.kind = "raise" THEN None ELSE r)

(***************************************************************************)
(* Test texts: a core word, in three letter-casings, with up to MaxPad     *)
(* characters before and after it.                                         *)
(***************************************************************************)
PadChars == {"d", "S", " ", "-", "_", "7"}

capitalize(s) == [i \in 1..Len(s) |-> IF i = 1 THEN UpperChar(s[i]) ELSE s[i]]

OtherWords == {
    <<"n","o","t","i","c","e">>,
    <<"c","i","r","c","u","l","a">>,
    <<"m","a","s","t","e","r"," "," ","c","i","r","c","u","l","a","r">>,
    <<"d","e","r","e","g","u","l","a","t","i","o","n","s","h","i","p">> }

CoreWords == Range(KEYWORDS) \cup OtherWords

Texts ==
    {pre \o core \o post :
        pre \in SeqsUpTo(PadChars, MaxPad),
        core \in UNION {{w, upper(w), capitalize(w)} : w \in CoreWords},
        post \in SeqsUpTo(PadChars, MaxPad)}

(***************************************************************************)
(* SpecKeyword: is_keyword_present applied to every test text.             *)
(***************************************************************************)
MainIdle ==
    /\ now = Unset
    /\ tzlocal = 0
    /\ xml_content = Unset
    /\ items = Unset
    /\ filtered = Unset
    /\ idx = 0
    /\ net = << >>
    /\ ui = << >>
    /\ rows = << >>

InitKeyword ==
    /\ pc = "call"
    /\ arg \in Texts
    /\ result = Unset
    /\ MainIdle

CallIsKeywordPresent ==
    /\ pc = "call"
    /\ result' = [kind |-> "bool", v |-> is_keyword_present(arg)]
    /\ pc' = "return"
    /\ UNCHANGED <<now, tzlocal, xml_content, items, filtered, idx, net, ui, rows, arg>>

NextKeyword == CallIsKeywordPresent

SpecKeyword == InitKeyword /\ [][NextKeyword]_vars

\* kw occurs in s at position i, letter case ignored
OccursAt(s, kw, i) ==
    /\ i >= 1
    /\ i + Len(kw) - 1 <= Len(s)
    /\ \A j \in 1..Len(kw) :
          \/ s[i + j - 1] = kw[j]
          \/ \E a \in 1..Len(LowerCase) : LowerCase[a] = kw[j] /\ UpperCase[a] = s[i + j - 1]

\* the occurrence at i has no word character right before or right after it
Delimited(s, kw, i) ==
    /\ (i = 1 \/ ~IsWordChar(s[i - 1]))
    /\ (i + Len(kw) - 1 = Len(s) \/ ~IsWordChar(s[i + Len(kw)]))

DelimitedKeyword(s) ==
    \E w \in 1..Len(KEYWORDS) : \E i \in 1..Len(s) :
        OccursAt(s, KEYWORDS[w], i) /\ Delimited(s, KEYWORDS[w], i)

\* C5: is_keyword_present(text) is true exactly when some keyword occurs in
\* the text, in any letter-casing, with no word character right before it and
\* none right after it; a keyword embedded in a longer word gives no match.
C5_WholeWordCaseInsensitive ==
    pc = "return" => (result.v <=> DelimitedKeyword(arg))

\* C5 witness: a keyword written in capitals inside a longer word was tested
\* and gave no match.
C5_Witness ==
    /\ pc = "return"
    /\ result.v = FALSE
    /\ \E w \in 1..Len(KEYWORDS) : \E i \in 1..Len(arg) :
          OccursAt(arg, KEYWORDS[w], i) /\ arg[i] \in Range(UpperCase)

(***************************************************************************)
(* pubDate strings of the shapes the feed carries, and near misses.        *)
(***************************************************************************)
DayMonthYear(d, mon, y) == <<Num(d, 2), Sp, Alpha(mon), Punct(","), Sp, Num(y, 4)>>

Rfc822(dow, d, mon, y, H, M, S) ==
    <<Alpha(dow), Punct(","), Sp, Num(d, 2), Sp, Alpha(mon), Sp, Num(y, 4), Sp,
      Num(H, 2), Punct(":"), Num(M, 2), Punct(":"), Num(S, 2)>>

IsoDate(y, m, d) == <<Num(y, 4), Punct("-"), Num(m, 2), Punct("-"), Num(d, 2)>>

Zone(sign, hhmm) == <<Punct(sign), Num(hhmm, 4)>>

\* what may stand behind a '+' that is not a zone offset
JunkLexemes == {Alpha("IST"), Sp, Num(99, 2)}

ZoneTails == {<<Sp>> \o Zone("+", 530), <<Sp>> \o Zone("-", 500), <<Sp>> \o Zone("+", 0),
              <<Sp, Alpha("Z")>>}

OtherTails ==
    {<< >>, <<Sp>>, <<Sp, Alpha("GMT")>>, Zone("+", 530), <<Sp, Punct("-"), Alpha("IST")>>,
     <<Sp>> \o Zone("+", 575)}
    \cup {<<Sp, Punct("+")>> \o junk : junk \in SeqsUpTo(JunkLexemes, MaxJunk)}

Dates == {<<5, "Nov", 2026>>, <<31, "Nov", 2026>>, <<29, "Feb", 2024>>,
          <<29, "Feb", 2026>>, <<1, "Jan", 1>>, <<31, "Dec", 9999>>}

DateStrings ==
    {head \o DayMonthYear(d[1], d[2], d[3]) \o tail :
        head \in {<< >>, <<Sp>>}, d \in Dates, tail \in ZoneTails \cup OtherTails}
    \cup {Rfc822(dow, d[1], d[2], d[3], t[1], t[2], t[3]) \o tail :
        dow \in {"Thu", "Sun"}, d \in Dates,
        t \in {<<0, 0, 0>>, <<23, 59, 59>>, <<24, 0, 0>>, <<10, 15, 60>>},
        tail \in ZoneTails \cup {<< >>, <<Sp, Alpha("GMT")>>}}
    \cup {IsoDate(d[3], MonthNumber(d[2]), d[1]) \o tail :
        d \in Dates, tail \in {<< >>, <<Sp>> \o Zone("+", 530)}}
    \cup {<< >>, <<Alpha("yesterday")>>, <<Num(5, 2), Sp, Alpha("Nov"), Punct(","), Num(2026, 4)>>,
          <<Num(5, 2), Sp, Alpha("November"), Punct(","), Sp, Num(2026, 4)>>,
          <<Punct("+")>> \o DayMonthYear(5, "Nov", 2026)}

(***************************************************************************)
(* SpecDate: parse_pub_date applied to every date string.                  *)
(***************************************************************************)
InitDate ==
    /\ pc = "call"
    /\ arg \in DateStrings
    /\ result = Unset
    /\ MainIdle

CallParsePubDate ==
    /\ pc = "call"
    /\ result' = parse_pub_date(arg)
    /\ pc' = "return"
    /\ UNCHANGED <<now, tzlocal, xml_content, items, filtered, idx, net, ui, rows, arg>>

NextDate == CallParsePubDate

SpecDate == InitDate /\ [][NextDate]_vars

\* the string is of one of the supported formats of fmts
IsSupportedFormat(s) == \E i \in 1..Len(fmts) : strptime(s, fmts[i]).kind = "datetime"

\* a valid "day month, year" date, then '+', then text that is no zone offset
IsDatePlusNonZone(s) ==
    /\ \E j \in 1..Len(s) :
          /\ s[j].k = "+"
          /\ strptime(SubSeq(s, 1, j - 2), FmtDayMonthYear).kind = "datetime"
          /\ j >= 2 /\ s[j - 1].k = "sp"
    /\ ~IsSupportedFormat(s)

\* C4: parse_pub_date returns None, and never raises, for every string that
\* is of none of the supported formats, a "day month, year" date followed by
\* '+' and non-zone text included.
C4_UnsupportedGivesNone ==
    (pc = "return" /\ ~IsSupportedFormat(arg)) => result = None

\* parse_pub_date never raises, and gives None when neither a format of fmts
\* nor the stripped text before the first '+' parses.
ParsePubDateTotal ==
    pc = "return" =>
        /\ result.kind \in {"datetime", "None"}
        /\ (result = None <=>
              /\ ~IsSupportedFormat(arg)
              /\ strptime(strip(BeforePlus(arg)), FmtDayMonthYear).kind # "datetime")

\* a date followed by '+' and non-zone text was given and came back parsed
DatePlusNonZoneParsed ==
    pc = "return" /\ IsDatePlusNonZone(arg) /\ result.kind = "datetime"

(***************************************************************************)
(* SpecFilter: filter_items applied to every sequence of up to MaxItems    *)
(* records, for several values of utcnow() and of the system-local zone.   *)
(***************************************************************************)
Weeks == 3

TitleCircular == <<"C","i","r","c","u","l","a","r">>
TitleNotice == <<"N","o","t","i","c","e">>
DescAmendments == <<"n","e","w"," ","a","m","e","n","d","m","e","n","t","s">>

Item(title, pub_date, description) ==
    [title |-> title, link |-> << >>, pub_date |-> pub_date, description |-> description]

\* utcnow(): 5 Nov 2026 at noon, at noon and one microsecond, at midnight
Nows == {Naive(ymd2ord(2026, 11, 5), 12 * 3600, 0),
         Naive(ymd2ord(2026, 11, 5), 12 * 3600, 1),
         Naive(ymd2ord(2026, 11, 5), 0, 0)}

\* UTC, India Standard Time, US Eastern Standard Time
LocalOffsets == {0, 19800, -18000}

FilterPubDates ==
    {Rfc822("Thu", 15, "Oct", 2026, 12, 0, 0) \o <<Sp>> \o Zone("+", 0),
     Rfc822("Thu", 15, "Oct", 2026, 11, 59, 59) \o <<Sp>> \o Zone("+", 0),
     Rfc822("Sun", 1, "Nov", 2026, 9, 30, 0) \o <<Sp>> \o Zone("+", 530),
     DayMonthYear(15, "Oct", 2026),
     DayMonthYear(14, "Oct", 2026),
     DayMonthYear(15, "Oct", 2026) \o <<Sp>> \o Zone("+", 530),
     DayMonthYear(20, "Oct", 2026) \o <<Sp, Punct("+"), Alpha("IST")>>,
     IsoDate(2026, 11, 2),
     <<Alpha("yesterday")>>}

FilterItemPool ==
    {Item(TitleCircular, d, << >>) : d \in FilterPubDates}
    \cup {Item(TitleNotice, Rfc822("Sun", 1, "Nov", 2026, 9, 30, 0) \o <<Sp>> \o Zone("+", 530),
               DescAmendments),
          Item(TitleNotice, IsoDate(2026, 11, 2), << >>),
          Item(TitleCircular, << >>, DescAmendments),
          Item(TitleCircular, DayMonthYear(1, "Jan", 1) \o <<Sp>> \o Zone("+", 530), << >>)}

InitFilter ==
    /\ pc = "call"
    /\ arg \in SeqsUpTo(FilterItemPool, MaxItems)
    /\ now \in Nows
    /\ tzlocal \in LocalOffsets
    /\ result = Unset
    /\ xml_content = Unset
    /\ items = Unset
    /\ filtered = Unset
    /\ idx = 0
    /\ net = << >>
    /\ ui = << >>
    /\ rows = << >>

CallFilterItems ==
    /\ pc = "call"
    /\ result' = filter_items(arg, Weeks, now, tzlocal)
    /\ pc' = "return"
    /\ UNCHANGED <<now, tzlocal, xml_content, items, filtered, idx, net, ui, rows, arg>>

NextFilter == CallFilterItems

SpecFilter == InitFilter /\ [][NextFilter]_vars

\* the cutoff: the current UTC instant minus the window
Cutoff == [ord |-> now.ord - 7 * Weeks, sec |-> now.sec, us |-> now.us]

\* seconds from the cutoff to the wall clock (ord, sec) moved by adj seconds;
\* beyond four days either way only the sign is kept
SecondsAfterCutoff(ord, sec, adj) ==
    LET d == ord - Cutoff.ord
    IN  IF d > 4 THEN 5 * SecondsPerDay
        ELSE IF d < -4 THEN -(5 * SecondsPerDay)
        ELSE d * SecondsPerDay + sec - Cutoff.sec + adj

\* the normalized timestamp of a parsed date, relative to the cutoff: as
\* parsed when it carries no zone, else its wall clock in the system-local zone
NormalizedAfterCutoff(dt) ==
    SecondsAfterCutoff(dt.ord, dt.sec, IF dt.aware THEN tzlocal - dt.off ELSE 0)

Qualifies(item) ==
    LET dt == parse_pub_date(item.pub_date)
    IN  /\ dt.kind = "datetime"
        /\ \/ NormalizedAfterCutoff(dt) > 0
           \/ NormalizedAfterCutoff(dt) = 0 /\ Cutoff.us = 0
        /\ \/ DelimitedKeyword(item.title)
           \/ DelimitedKeyword(item.description)

Stripped(rec) ==
    [title |-> rec.title, link |-> rec.link, pub_date |-> rec.pub_date,
     description |-> rec.description]

Count(s, x) == Cardinality({i \in 1..Len(s) : s[i] = x})

CountOut(s, x) == Cardinality({i \in 1..Len(s) : Stripped(s[i]) = x})

\* C1: filter_items returns, for every input, exactly the records whose date
\* parses, whose normalized timestamp is not earlier than the cutoff and whose
\* title or description holds a keyword; a record whose date does not parse is
\* left out without an exception.
C1_ExactlyTheQualifying ==
    pc = "return" =>
        /\ result.kind = "list"
        /\ \A x \in Range(arg) :
              CountOut(result.v, x) = (IF Qualifies(x) THEN Count(arg, x) ELSE 0)
        /\ \A i \in 1..Len(result.v) : Stripped(result.v[i]) \in Range(arg)

\* the same, for the calls that return
FilterExactWhenReturns ==
    (pc = "return" /\ result.kind = "list") =>
        /\ \A x \in Range(arg) :
              CountOut(result.v, x) = (IF Qualifies(x) THEN Count(arg, x) ELSE 0)
        /\ \A i \in 1..Len(result.v) : Stripped(result.v[i]) \in Range(arg)

\* the instant a pubDate string names, read in UTC, relative to the cutoff
InstantAfterCutoff(dt) == SecondsAfterCutoff(dt.ord, dt.sec, -dt.off)

\* C2: a record with a keyword dated exactly at the cutoff instant is in the
\* output, one dated one second earlier is not, whether or not the date
\* carries a zone offset.
C2_InclusiveCutoff ==
    (pc = "return" /\ result.kind = "list" /\ now.us = 0) =>
        \A x \in Range(arg) :
            LET dt == parse_pub_date(x.pub_date)
            IN  (dt.kind = "datetime" /\ ItemHasKeyword(x)) =>
                    /\ InstantAfterCutoff(dt) = 0 => CountOut(result.v, x) > 0
                    /\ InstantAfterCutoff(dt) = -1 => CountOut(result.v, x) = 0

\* the same for the dates that carry no zone offset
InclusiveCutoffNaive ==
    (pc = "return" /\ result.kind = "list" /\ now.us = 0) =>
        \A x \in Range(arg) :
            LET dt == parse_pub_date(x.pub_date)
            IN  (dt.kind = "datetime" /\ ~dt.aware /\ ItemHasKeyword(x)) =>
                    /\ InstantAfterCutoff(dt) = 0 => CountOut(result.v, x) > 0
                    /\ InstantAfterCutoff(dt) < 0 => CountOut(result.v, x) = 0

\* C3: the sequence filter_items returns is sorted newest first: of two
\* adjacent records the first has the greater or equal pub_date_obj.
C3_SortedNewestFirst ==
    (pc = "return" /\ result.kind = "list") =>
        \A i \in 1..(Len(result.v) - 1) :
            LET a == result.v[i].pub_date_obj
                b == result.v[i + 1].pub_date_obj
            IN  \/ a.ord > b.ord
                \/ a.ord = b.ord /\ a.sec >= b.sec

\* C3 witness: two records given oldest first came back newest first.
C3_Witness ==
    /\ pc = "return" /\ result.kind = "list"
    /\ Len(result.v) = 2 /\ Len(arg) = 2
    /\ Stripped(result.v[1]) = arg[2]
    /\ Stripped(result.v[2]) = arg[1]
    /\ result.v[1].pub_date_obj # result.v[2].pub_date_obj

(***************************************************************************)
(* Feed documents.                                                         *)
(***************************************************************************)
SebiHost == Host(<<"s","e","b","i">>)
SEBI_FEED_URL == <<Scheme, SebiHost, Segment(<<"s","e","b","i","r","s","s",".","x","m","l">>)>>
LinkOne == <<Scheme, SebiHost, Segment(<<"c","1",".","h","t","m","l">>)>>
LinkTwo == <<Scheme, SebiHost, Segment(<<"c","2",".","h","t","m","l">>)>>

RecentDate == Rfc822("Sun", 1, "Nov", 2026, 9, 30, 0) \o <<Sp>> \o Zone("+", 530)
NewerDate == IsoDate(2026, 11, 2)
OldDate == DayMonthYear(14, "Oct", 2026)
OverflowDate == DayMonthYear(1, "Jan", 1) \o <<Sp>> \o Zone("+", 530)

Field(tag, text) == Element(tag, text, << >>)

FullItem(title, link, pub_date, description) ==
    Element("item", << >>, <<Field("title", title), Field("link", link),
                             Field("pubDate", pub_date), Field("description", description)>>)

ItemElements ==
    {FullItem(TitleCircular, LinkOne, RecentDate, DescAmendments),
     FullItem(TitleNotice, LinkTwo, NewerDate, << >>),
     Element("item", << >>, <<Field("pubDate", NewerDate), Field("title", TitleCircular)>>),
     Element("item", << >>, <<Field("title", TitleNotice), Field("guid", LinkOne),
                                Field("title", TitleCircular), Field("link", LinkTwo)>>),
     Element("item", << >>, << >>)}

ChannelTitle == Field("title", TitleCircular)

Channel(children) == Element("channel", << >>, children)
Rss(children) == Document(Element("rss", << >>, children))

ParseDocs ==
    {Malformed, Rss(<< >>), Rss(<<ChannelTitle>>)}
    \cup {Rss(<<Channel(c)>>) : c \in SeqsUpTo(ItemElements \cup {ChannelTitle}, MaxFeedItems)}
    \cup {Rss(<<Channel(<<e>>), Field("item", TitleNotice), Channel(<<ChannelTitle, e>>)>>) :
            e \in ItemElements}

(***************************************************************************)
(* SpecParse: parse_sebi_feed applied to every feed document.              *)
(***************************************************************************)
InitParse ==
    /\ pc = "call"
    /\ arg \in ParseDocs
    /\ result = Unset
    /\ MainIdle

CallParseSebiFeed ==
    /\ pc = "call"
    /\ result' = parse_sebi_feed(arg)
    /\ pc' = "return"
    /\ UNCHANGED <<now, tzlocal, xml_content, items, filtered, idx, net, ui, rows, arg>>

NextParse == CallParseSebiFeed

SpecParse == InitParse /\ [][NextParse]_vars

\* the positions of the children of e that are tagged `tag`
PositionsTagged(e, tag) == {i \in 1..Len(e.children) : e.children[i].tag = tag}

\* the position among the children of e of its n-th child tagged `tag`
NthTagged(e, tag, n) ==
    CHOOSE i \in PositionsTagged(e, tag) :
        Cardinality({j \in PositionsTagged(e, tag) : j <= i}) = n

\* the text of the sub-element `tag` of an item, empty when there is none
TextOf(item, tag) ==
    IF PositionsTagged(item, tag) = {} THEN << >>
    ELSE item.children[NthTagged(item, tag, 1)].text

\* the document has a single channel element
OneChannel(doc) == doc.wellformed /\ Cardinality(PositionsTagged(doc.root, "channel")) = 1

TheChannel(doc) == doc.root.children[NthTagged(doc.root, "channel", 1)]

\* C6: for a well-formed feed whose channel has N item children,
\* parse_sebi_feed returns N records in document order, record i with the
\* title, link, pubDate and description text of item i, empty when absent.
C6_OneRecordPerItem ==
    (pc = "return" /\ OneChannel(arg)) =>
        LET ch == TheChannel(arg)
            N == Cardinality(PositionsTagged(ch, "item"))
        IN  /\ result.kind = "list"
            /\ Len(result.v) = N
            /\ \A i \in 1..N :
                  LET item == ch.children[NthTagged(ch, "item", i)]
                  IN  /\ result.v[i].title = TextOf(item, "title")
                      /\ result.v[i].link = TextOf(item, "link")
                      /\ result.v[i].pub_date = TextOf(item, "pubDate")
                      /\ result.v[i].description = TextOf(item, "description")

\* C6 witness: a channel with two items among other children, the second
\* item lacking its description, was parsed into two records.
C6_Witness ==
    /\ pc = "return" /\ OneChannel(arg)
    /\ Cardinality(PositionsTagged(TheChannel(arg), "item")) = 2
    /\ Len(TheChannel(arg).children) > 2
    /\ result.kind = "list" /\ Len(result.v) = 2
    /\ result.v[1].description # << >>
    /\ result.v[2].description = << >>

(***************************************************************************)
(* Spec: one render cycle, main() (l.105-147).                             *)
(***************************************************************************)
\* what requests.get(url) of fetch_sebi_feed may meet (l.21)
FeedError(exc) == [kind |-> "error", exc |-> exc, status |-> 0, content |-> Malformed]
FeedHttp(status, content) == [kind |-> "http", exc |-> "", status |-> status, content |-> content]

\* l.20-23 without raise_for_status
FetchAnyStatus(url, response) ==
    IF response.kind = "error" THEN Raise(response.exc) ELSE response.content

\* fetch_sebi_feed (l.20-23)
fetch_sebi_feed(url, response) ==
    IF response.kind = "error" THEN Raise(response.exc)
    ELSE IF response.status >= 400 THEN Raise("HTTPError")
    ELSE response.content

FeedDocs ==
    {Malformed,
     Rss(<<Channel(<<ChannelTitle>>)>>),
     Rss(<<Channel(<<FullItem(TitleNotice, LinkOne, RecentDate, << >>),
                     FullItem(TitleCircular, LinkTwo, OldDate, << >>)>>)>>),
     Rss(<<Channel(<<ChannelTitle,
                     FullItem(TitleCircular, LinkOne, RecentDate, DescAmendments),
                     FullItem(TitleNotice, LinkTwo, NewerDate, DescAmendments)>>)>>),
     Rss(<<Channel(<<Element("item", << >>, <<Field("pubDate", NewerDate),
                                                Field("title", TitleCircular)>>),
                     FullItem(TitleNotice, LinkOne, NewerDate, << >>)>>)>>),
     Rss(<<Channel(<<FullItem(TitleCircular, LinkOne, RecentDate, << >>),
                     FullItem(TitleCircular, LinkTwo, OverflowDate, << >>)>>)>>)}

FeedResponses ==
    {FeedError("ConnectionError")}
    \cup {FeedHttp(500, doc) : doc \in {Malformed, Rss(<<Channel(<<FullItem(TitleCircular, LinkOne, RecentDate, << >>)>>)>>)}}
    \cup {FeedHttp(200, doc) : doc \in FeedDocs}

PdfSrc == <<Segment(<<"d","o","c","s">>), Segment(<<"c","i","r","c",".","P","D","F">>)>>
ViewerSrc == <<Scheme, SebiHost, Segment(<<"v","i","e","w","e","r",".","h","t","m","l">>)>>

PageResponses ==
    {ConnectionError, Timeout, HttpStatus(404), BadHtml, Html(<< >>),
     Html(<<IframeNoSrc, Iframe(PdfSrc), Iframe(ViewerSrc)>>),
     Html(<<Iframe(ViewerSrc)>>)}

Init ==
    /\ pc = "start"
    /\ now \in Nows
    /\ tzlocal \in LocalOffsets
    /\ xml_content = Unset
    /\ items = Unset
    /\ filtered = Unset
    /\ idx = 0
    /\ net = << >>
    /\ ui = << >>
    /\ rows = << >>
    /\ arg = Unset
    /\ result = Unset

FeedRequest(response) == [kind |-> "feed", url |-> SEBI_FEED_URL, response |-> response]
PageRequest(url, response) == [kind |-> "page", url |-> url, response |-> response]

Header == [kind |-> "header"]
ErrorMessage(exc) == [kind |-> "error", exc |-> exc]
InfoNothingFound == [kind |-> "info"]
Exception(exc) == [kind |-> "exception", exc |-> exc]
NotFound == [kind |-> "Not found"]

\* l.129-133: the PDF an item is shown with, None for st.info("No PDF found/linked.")
InlinePdf(pdf_url) ==
    IF pdf_url.kind = "url" /\ pdf_url.v # << >> /\ IsPdfUrl(pdf_url.v) THEN pdf_url ELSE None

\* l.123-134: what is rendered for the n-th filtered record (its formatted
\* date apart)
ItemView(n, item, pdf_url) ==
    [kind |-> "item", n |-> n, title |-> item.title, link |-> item.link,
     description |-> item.description, pdf |-> InlinePdf(pdf_url)]

\* l.144: extract_pdf_from_iframe(item["link"]) or "Not found"
TablePdf(pdf_url) ==
    IF pdf_url.kind = "url" /\ pdf_url.v # << >> THEN pdf_url ELSE NotFound

\* l.140-145: the row of the table for a filtered record (its formatted
\* date apart)
Row(item, pdf_url) ==
    [Title |-> item.title, Link |-> item.link, PDF |-> TablePdf(pdf_url)]

\* l.111-113: the three calls under the try, each value Unset when an
\* earlier call raised, and the exception that left the try, if any
TryBlock(response, utcnow, tzl) ==
    Let(fetch_sebi_feed(SEBI_FEED_URL, response), LAMBDA xml :
        IF xml.kind = "raise"
        THEN [xml |-> xml, items |-> Unset, filtered |-> Unset, failure |-> xml]
        ELSE Let(parse_sebi_feed(xml), LAMBDA its :
            IF its.kind = "raise"
            THEN [xml |-> xml, items |-> its, filtered |-> Unset, failure |-> its]
            ELSE Let(filter_items(its.v, Weeks, utcnow, tzl), LAMBDA flt :
                [xml |-> xml, items |-> its, filtered |-> flt,
                 failure |-> IF flt.kind = "raise" THEN flt ELSE None])))

\* l.106-120: the page header, then fetch, parse and filter under one try
Start ==
    /\ pc = "start"
    /\ \E response \in FeedResponses :
       \E try \in {TryBlock(response, now, tzlocal)} :
          /\ net' = Append(net, FeedRequest(response))
          /\ xml_content' = try.xml
          /\ items' = try.items
          /\ filtered' = try.filtered
          /\ IF try.failure.kind = "raise"
             THEN /\ ui' = ui \o <<Header, ErrorMessage(try.failure.exc)>>      \* l.114-116
                  /\ pc' = "done"
                  /\ idx' = idx
             ELSE IF try.filtered.v = << >>
             THEN /\ ui' = ui \o <<Header, InfoNothingFound>>                   \* l.118-120
                  /\ pc' = "done"
                  /\ idx' = idx
             ELSE /\ ui' = ui \o <<Header>>
                  /\ pc' = "render"
                  /\ idx' = 1
    /\ UNCHANGED <<now, tzlocal, rows, arg, result>>

\* l.122-134: one turn of the loop over `filtered`
RenderItem ==
    /\ pc = "render"
    /\ \E response \in PageResponses :
       \E pdf_url \in {extract_pdf_from_iframe(filtered.v[idx].link, response)} :
          LET item == filtered.v[idx]
          IN  /\ net' = Append(net, PageRequest(item.link, response))
              /\ IF pdf_url.kind = "raise"
                 THEN /\ ui' = Append(ui, Exception(pdf_url.exc))
                      /\ pc' = "crashed"
                      /\ idx' = idx
                 ELSE /\ ui' = Append(ui, ItemView(idx, item, pdf_url))
                      /\ pc' = IF idx < Len(filtered.v) THEN "render" ELSE "table"
                      /\ idx' = IF idx < Len(filtered.v) THEN idx + 1 ELSE 1
    /\ UNCHANGED <<now, tzlocal, xml_content, items, filtered, rows, arg, result>>

\* the table built from every parsed record
TableOfItems == items.v

\* the records the table is built from (l.145)
TableSource == filtered.v

\* l.137-147: one row of the table, and the table once its last row is built
TableRow ==
    /\ pc = "table"
    /\ idx <= Len(TableSource)
    /\ \E response \in PageResponses :
       \E pdf_url \in {extract_pdf_from_iframe(TableSource[idx].link, response)} :
          LET item == TableSource[idx]
          IN  /\ net' = Append(net, PageRequest(item.link, response))
              /\ IF pdf_url.kind = "raise"
                 THEN /\ ui' = Append(ui, Exception(pdf_url.exc))
                      /\ rows' = rows
                      /\ pc' = "crashed"
                      /\ idx' = idx
                 ELSE /\ rows' = Append(rows, Row(item, pdf_url))
                      /\ idx' = idx + 1
                      /\ IF idx < Len(TableSource)
                         THEN ui' = ui /\ pc' = "table"
                         ELSE /\ ui' = Append(ui, [kind |-> "dataframe", rows |-> rows'])
                              /\ pc' = "done"
    /\ UNCHANGED <<now, tzlocal, xml_content, items, filtered, arg, result>>

Next == Start \/ RenderItem \/ TableRow

Spec == Init /\ [][Next]_vars

\* the response to the feed request, and the page requests in order
FeedResponse == net[1].response
PageRequests == SubSeq(net, 2, Len(net))

\* the k-th entry of ui of the given kind exists
Shown(kind) == {k \in 1..Len(ui) : ui[k].kind = kind}

\* the main feed fetch, the feed parse or the filtering step failed
FeedStepFailed ==
    /\ pc # "start"
    /\ \/ FeedResponse.kind = "error"
       \/ FeedResponse.status >= 400
       \/ ~FeedResponse.content.wellformed
       \/ filtered.kind = "raise"

\* the request for a page failed: no usable URL, a transport error or a
\* timeout, a non-success status, or HTML that does not parse
PageFailed(request) ==
    \/ request.url = << >>
    \/ request.response.kind = "error"
    \/ request.response.status >= 400
    \/ ~request.response.parses

\* C7: in the inline view and in the table alike, a record is shown with a
\* PDF only if the URL found ends in ".pdf"; a frame URL that does not is
\* shown as not found.
C7_NonPdfShownAsNotFound ==
    /\ \A k \in Shown("item") : ui[k].pdf.kind = "url" => IsPdfUrl(ui[k].pdf.v)
    /\ \A r \in 1..Len(rows) : rows[r].PDF.kind = "url" => IsPdfUrl(rows[r].PDF.v)

\* the inline view alone keeps to it
InlineOnlyPdf ==
    \A k \in Shown("item") : ui[k].pdf.kind = "url" => IsPdfUrl(ui[k].pdf.v)

\* C8: when the feed fetch, the feed parse or the filtering step fails, the
\* cycle ends with exactly one error message, no record rendered, no table
\* and no page fetch.
C8_FeedFailureIsFatal ==
    FeedStepFailed =>
        /\ pc = "done"
        /\ Cardinality(Shown("error")) = 1
        /\ Shown("item") = {} /\ Shown("dataframe") = {} /\ rows = << >>
        /\ PageRequests = << >>

\* C8 witness: the filtering step raised and the cycle is over.
C8_Witness ==
    /\ pc = "done"
    /\ FeedResponse.kind = "http" /\ FeedResponse.status = 200
    /\ filtered.kind = "raise"
    /\ Shown("error") # {}

\* C9: a failed PDF lookup never propagates: nothing crashes, no error is
\* shown, the record is shown without a PDF in the view the lookup was made
\* for, and the cycle goes on to render every filtered record and the table.
C9_PdfFailureIsSwallowed ==
    /\ pc # "crashed"
    /\ Shown("exception") = {}
    /\ PageRequests # << >> => Shown("error") = {}
    /\ pc \in {"render", "table"} => idx \in 1..Len(filtered.v)
    /\ \A j \in 1..Len(PageRequests) :
          PageFailed(PageRequests[j]) =>
              IF j <= Len(filtered.v)
              THEN ui[1 + j].kind = "item" /\ ui[1 + j].n = j /\ ui[1 + j].pdf = None
              ELSE rows[j - Len(filtered.v)].PDF = NotFound
    /\ (pc = "done" /\ PageRequests # << >>) =>
          /\ \A n \in 1..Len(filtered.v) : ui[1 + n].kind = "item" /\ ui[1 + n].n = n
          /\ Len(rows) = Len(filtered.v)
          /\ ui[Len(ui)] = [kind |-> "dataframe", rows |-> rows]

\* C9 witness: the lookup for the first record timed out in the inline pass,
\* and the cycle still rendered two records and the table.
C9_Witness ==
    /\ pc = "done"
    /\ Len(PageRequests) = 4
    /\ PageRequests[1].response = Timeout
    /\ PageRequests[3].response = HttpStatus(404)
    /\ Shown("dataframe") # {}

\* C10: one feed fetch, ahead of every page fetch; page fetches only for the
\* links of the filtered records, in filtered order, the inline pass before
\* the table pass; a completed cycle has fetched every filtered link twice.
C10_FetchOrder ==
    /\ pc # "start" => Len(net) >= 1 /\ net[1].kind = "feed"
    /\ \A k \in 2..Len(net) : net[k].kind = "page"
    /\ PageRequests # << >> => filtered.kind = "list"
    /\ \A j \in 1..Len(PageRequests) :
          LET n == Len(filtered.v)
          IN  /\ j <= 2 * n
              /\ PageRequests[j].url = filtered.v[((j - 1) % n) + 1].link
              /\ (j <= n) => Len(rows) = 0 \/ j < Len(PageRequests)
    /\ Len(rows) > 0 => Len(PageRequests) = Len(filtered.v) + Len(rows)
    /\ Cardinality(Shown("item")) =
          (IF pc = "start" \/ filtered.kind # "list" THEN 0
           ELSE IF Len(PageRequests) <= Len(filtered.v) THEN Len(PageRequests)
           ELSE Len(filtered.v))
    /\ (pc = "done" /\ filtered.kind = "list" /\ filtered.v # << >>) =>
          Len(PageRequests) = 2 * Len(filtered.v)

\* C10 witness: a completed cycle over two filtered records with different
\* links.
C10_Witness ==
    /\ pc = "done"
    /\ filtered.kind = "list" /\ Len(filtered.v) = 2
    /\ filtered.v[1].link # filtered.v[2].link
    /\ Len(net) = 5

====
